---- MODULE Spec2Model ----
(***************************************************************************)
(* VeilDE-rs: the window/GL-context lifecycle, the callback-driven frame   *)
(* loop, the renderer's GL handle discipline and the fatal-error channel.  *)
(*                                                                         *)
(* The repository holds two event-loop handlers.  src/src/app.rs is the    *)
(* one main.rs builds (mod app); src/src/gui.rs is the earlier handler,    *)
(* which is the only place a Resized event is acted on.  The variable      *)
(* `handler` says which of the two drives the run.                         *)
(***************************************************************************)
EXTENDS Integers, Sequences, FiniteSets, TLC

\* ---------------------------------------------------------------- bounds
MaxCallbacks == 4       \* callbacks the platform delivers in one run
MaxAfterExit == 2       \* callbacks still delivered after exit() was asked
MaxClock == 2           \* ticks of the monotonic clock (Instant::now)

\* ------------------------------------------------------ program constants
WINDOW_WIDTH == 1600
WINDOW_HEIGHT == 900
SWAP_INTERVAL == 1

WINDOW_SIZE == <<WINDOW_WIDTH, WINDOW_HEIGHT>>

\* sizes a platform resize notification may carry (0 = minimised)
Widths == {0, 800, WINDOW_WIDTH}
Heights == {0, 600, WINDOW_HEIGHT}

VARIABLES
    handler,        \* "app" (app.rs) or "gui" (gui.rs)
    pc,             \* position of init(): "start", "running", "returned", "done", "panicked"
    application,    \* app.rs: Option<VeilDEApplication> is Some
    errors,         \* everything sent on error_tx, in order
    received,       \* number of try_recv calls made by init()
    exitRequested,  \* event_loop.exit() has been called
    driverFailed,   \* run_app returned Err
    result,         \* what init() returned: <<>> (not yet), <<"Ok">>, <<"Err", chain>>
    surface,        \* size of the window surface: <<>> before it exists, else <<w, h>>
    viewport,       \* GL viewport: <<>> before a context exists, else <<x, y, w, h>>
    swapInterval,   \* <<>> until set_swap_interval succeeded, else <<n>>
    lastFrame,      \* last_frame: <<>> for None, <<t>> for Some(t)
    clock,          \* the monotonic clock
    gl,             \* live GL objects made by VeilDERenderer::new in the current context
    rnew,           \* the last VeilDERenderer::new call: what was live before and after, and its result
    created,        \* how many windows, contexts, surfaces, programs the run has created
    shutdowns,      \* number of VeilDERenderer::shutdown calls
    cb,             \* the last callback: its event, what it did, how it ended
    callbacks,      \* callbacks delivered so far
    afterExit,      \* callbacks delivered after exit() was asked
    lastResize,     \* the last Resized event with both dimensions non-zero an initialised handler got
    frames,         \* frames started so far (calls of render(), of the RedrawRequested arm in gui.rs)
    window          \* inner size asked for the live window: <<>> before it exists, else <<w, h>>

vars == <<handler, pc, application, errors, received, exitRequested, driverFailed,
          result, surface, viewport, swapInterval, lastFrame, clock, gl, rnew,
          created, shutdowns, cb, callbacks, afterExit, lastResize, frames, window>>

\* ---------------------------------------------------------------- helpers
Some(x) == <<x>>
None == <<>>

\* anyhow's .context(msg): a new outermost layer on the cause chain
WithContext(msg, chain) == <<msg>> \o chain

\* the innermost cause of an error
RootCause(chain) == chain[Len(chain)]

Has(seq, x) == \E i \in 1..Len(seq) : seq[i] = x

Count(seq, x) == Cardinality({i \in 1..Len(seq) : seq[i] = x})

\* the first position of x in seq (0 when absent)
IndexOf(seq, x) == IF Has(seq, x) THEN CHOOSE i \in 1..Len(seq) : seq[i] = x /\ \A j \in 1..(i-1) : seq[j] # x ELSE 0

\* what the model remembers of one callback
NoCallback == [kind |-> "none", event |-> <<"none">>, exitBefore |-> FALSE, initialised |-> FALSE,
               ops |-> <<>>, startup |-> <<>>, outcome |-> "none", sent |-> 0, delta |-> <<>>,
               translated |-> <<>>,
               surfaceBefore |-> <<>>, viewportBefore |-> <<>>, errorsBefore |-> 0]

\* ------------------------------------------------- renderer.rs: GL objects
\* A GL context's object table: the live names and the shaders attached to the program.
EmptyGl == [live |-> {}, attached |-> {}]

Handle(kind, id) == [kind |-> kind, id |-> id]

\* glow's create_*: the driver hands out a name not in use
FreshId(live) == IF live = {} THEN 1 ELSE 1 + (CHOOSE m \in {h.id : h \in live} : \A h \in live : h.id <= m)

Stages == <<"vertex", "fragment">>

ShaderInfoLog(stage) == IF stage = "vertex" THEN "vertex shader info log" ELSE "fragment shader info log"

ProgramInfoLog == "program info log"

\* where the driver makes VeilDERenderer::new fail
RendererFailPoints ==
    {<<"none">>, <<"create_program">>, <<"create_vertex_array">>, <<"link">>}
    \cup {<<"create_shader", Stages[i]>> : i \in 1..2}
    \cup {<<"compile", Stages[i]>> : i \in 1..2}

\* renderer.rs 29-43: the loop over the two stages, from stage i on.
\* st = [gl, ops, shaders, err]; the first failure leaves the loop (and the function) at once.
RECURSIVE CompileStages(_, _, _, _)
CompileStages(st, program, i, failAt) ==
    IF i > Len(Stages) THEN st
    ELSE IF failAt = <<"create_shader", Stages[i]>>
    THEN [st EXCEPT !.err = Some(<<"Failed to create shader">>)]
    ELSE LET shader == Handle("shader", FreshId(st.gl.live))
             made == [st EXCEPT !.gl.live = @ \cup {shader},
                                !.ops = @ \o << <<"create_shader", Stages[i]>>, <<"compile_shader", Stages[i]>> >>]
         IN IF failAt = <<"compile", Stages[i]>>
            THEN [made EXCEPT !.err = Some(<<ShaderInfoLog(Stages[i])>>)]
            ELSE CompileStages([made EXCEPT !.gl.attached = @ \cup {shader},
                                            !.ops = @ \o << <<"attach_shader", Stages[i]>> >>,
                                            !.shaders = @ \o <<shader>>],
                               program, i + 1, failAt)

\* the cleanup loop with delete_shader forgotten: the stage shaders are detached only
RECURSIVE CleanupShaders_DetachOnly(_, _)
CleanupShaders_DetachOnly(st, i) ==
    IF i > Len(st.shaders) THEN st
    ELSE CleanupShaders_DetachOnly([st EXCEPT !.gl.attached = @ \ {st.shaders[i]},
                                              !.ops = @ \o << <<"detach_shader", Stages[i]>> >>],
                                   i + 1)

\* renderer.rs 51-54: detach and delete every stage shader
RECURSIVE CleanupShaders(_, _)
CleanupShaders(st, i) ==
    IF i > Len(st.shaders) THEN st
    ELSE CleanupShaders([st EXCEPT !.gl.attached = @ \ {st.shaders[i]},
                                   !.gl.live = @ \ {st.shaders[i]},
                                   !.ops = @ \o << <<"detach_shader", Stages[i]>>, <<"delete_shader", Stages[i]>> >>],
                        i + 1)

\* renderer.rs 14-64: VeilDERenderer::new on the object table g, the driver failing at failAt.
\* Returns [gl, ops, shaders, err, program, vertex_array]; err = None means Ok(Self{..}).
RendererNew(g, failAt) ==
    LET st0 == [gl |-> g, ops |-> <<>>, shaders |-> <<>>, err |-> None,
                program |-> None, vertex_array |-> None]
    IN IF failAt = <<"create_program">>
       THEN [st0 EXCEPT !.err = Some(<<"Failed to create OpenGL program">>)]
       ELSE LET program == Handle("program", FreshId(g.live))
                st1 == [st0 EXCEPT !.gl.live = @ \cup {program},
                                   !.ops = @ \o << <<"create_program">> >>,
                                   !.program = Some(program)]
            IN IF failAt = <<"create_vertex_array">>
               THEN [st1 EXCEPT !.err = Some(<<"Failed to create vertex array">>)]
               ELSE LET vao == Handle("vertex_array", FreshId(st1.gl.live))
                        st2 == [st1 EXCEPT !.gl.live = @ \cup {vao},
                                           !.ops = @ \o << <<"create_vertex_array">> >>,
                                           !.vertex_array = Some(vao)]
                        st3 == CompileStages(st2, program, 1, failAt)
                    IN IF st3.err # None THEN st3
                       ELSE LET st4 == [st3 EXCEPT !.ops = @ \o << <<"link_program">> >>]
                            IN IF failAt = <<"link">>
                               THEN [st4 EXCEPT !.err = Some(<<ProgramInfoLog>>)]
                               ELSE CleanupShaders(st4, 1)

\* renderer.rs 85-90: VeilDERenderer::shutdown deletes the program and the vertex array
RendererShutdown(g, program, vertex_array) ==
    [g EXCEPT !.live = @ \ {program, vertex_array}]

\* what the model remembers of the last VeilDERenderer::new call
NoRendererCall == [called |-> FALSE, failAt |-> <<"none">>, before |-> {}, after |-> {},
                   err |-> None, ops |-> <<>>]

\* ------------------------------------------------------- app.rs: startup
\* VeilDEApplication::new creating the GPU program before it sets the swap interval
AppStartupSteps_ProgramBeforeSwapInterval ==
    <<"monitor", "video_mode", "display_build", "window", "context", "surface", "make_current",
      "imgui", "glow", "winit", "renderer", "swap_interval">>

\* app.rs 83-131 (with init_glutin 314-337, init_opengl 339-386, init_imgui, init_glow,
\* init_winit): the steps of VeilDEApplication::new in the order the code runs them.
AppStartupSteps ==
    <<"monitor", "video_mode", "display_build", "window", "context", "surface", "make_current",
      "imgui", "glow", "winit", "swap_interval", "renderer">>

\* gui.rs 307-321: the steps init() runs before run_app
GuiStartupSteps ==
    <<"event_loop", "display_build", "window", "context", "surface", "make_current",
      "imgui", "glow", "winit", "swap_interval">>

\* the steps that return an error (init_imgui and init_winit always return Ok)
FallibleSteps ==
    {"event_loop", "monitor", "video_mode", "display_build", "window", "context", "surface",
     "make_current", "glow", "swap_interval"}

\* the error each failing step returns (the messages of the .context()/anyhow! calls)
StartupError(step) ==
    CASE step = "event_loop" -> <<"Failed to create event loop", "os error">>
      [] step = "monitor" -> <<"Failed to get monitor">>
      [] step = "video_mode" -> <<"Failed to get video mode">>
      [] step = "display_build" -> <<"Failed to initialize glutin">>
      [] step = "window" -> <<"Failed to create window">>
      [] step = "context" -> <<"Failed to create OpenGL context", "glutin error">>
      [] step = "surface" -> <<"Failed to create window surface", "glutin error">>
      [] step = "make_current" -> <<"Failed to make OpenGL context current", "glutin error">>
      [] step = "glow" -> <<"Failed to create GLOW context", "init error">>
      [] step = "swap_interval" -> <<"Failed to set swap interval", "glutin error">>

\* how a startup can go: all steps succeed, one step returns an error, the configuration
\* picker's unwrap() panics (app.rs 330) or VeilDERenderer::new fails at a point of its own
StartupFailures(steps) ==
    {<<"none">>, <<"config_unwrap">>}
    \cup {<<"step", steps[i]>> : i \in {j \in 1..Len(steps) : steps[j] \in FallibleSteps}}
    \cup {<<"renderer", r>> : r \in {q \in RendererFailPoints : q # <<"none">> /\ Has(steps, "renderer")}}

\* the step at which a startup going as `fail` stops
FailingStep(fail) ==
    CASE fail[1] = "none" -> "none"
      [] fail[1] = "config_unwrap" -> "display_build"
      [] fail[1] = "step" -> fail[2]
      [] fail[1] = "renderer" -> "renderer"

\* the steps that ran (the failing one is the last)
StepsRun(steps, fail) ==
    IF fail[1] = "none" THEN steps ELSE SubSeq(steps, 1, IndexOf(steps, FailingStep(fail)))

\* app.rs 83-131: VeilDEApplication::new.  Returns what the call did and made:
\* [steps, panic, err, rn, app]; err = None and panic = FALSE means Ok(Self{..}).
ApplicationNew(fail) ==
    LET steps == StepsRun(AppStartupSteps, fail)
        rn == RendererNew(EmptyGl, IF fail[1] = "renderer" THEN fail[2] ELSE <<"none">>)
        err == CASE fail[1] = "none" -> None
                 [] fail[1] = "config_unwrap" -> None
                 [] fail[1] = "step" -> Some(StartupError(fail[2]))
                 [] fail[1] = "renderer" -> Some(WithContext("Failed to create VeilDE renderer", rn.err[1]))
    IN [steps |-> steps,
        panic |-> (fail[1] = "config_unwrap"),
        err |-> err,
        ranRenderer |-> Has(steps, "renderer"),
        rn |-> rn]

\* a step of a startup ran and succeeded
Succeeded(steps, fail, step) == Has(StepsRun(steps, fail), step) /\ FailingStep(fail) # step

\* the windows, contexts, surfaces and programs a startup created
CreatedBy(steps, fail, rn) ==
    [window |-> IF Succeeded(steps, fail, "display_build") THEN 1 ELSE 0,
     context |-> IF Succeeded(steps, fail, "context") THEN 1 ELSE 0,
     surface |-> IF Succeeded(steps, fail, "surface") THEN 1 ELSE 0,
     program |-> IF Has(StepsRun(steps, fail), "renderer") /\ rn.program # None THEN 1 ELSE 0]

AddCreated(c, d) ==
    [window |-> c.window + d.window, context |-> c.context + d.context,
     surface |-> c.surface + d.surface, program |-> c.program + d.program]

\* the sizes monitor.video_modes().next() may report (app.rs 92-93)
VideoModes == {<<WINDOW_WIDTH, WINDOW_HEIGHT>>, <<1920, 1080>>}

\* app.rs 94-98: the inner size asked for the window, LogicalSize(width + 1, height + 1)
AppWindowSize(resolution) == <<resolution[1] + 1, resolution[2] + 1>>

\* gui.rs 220-226: the inner size asked for the window, LogicalSize(WINDOW_SIZE)
GuiWindowSize == WINDOW_SIZE

\* resumed() starting the application with the is_none() test dropped
ShouldStart_Always(app) == TRUE

\* app.rs 227: resumed() starts the application only while there is none
ShouldStart(app) == app = None

\* the GL viewport of a context first made current on a surface of size sz
InitialViewport(sz) == <<0, 0, sz[1], sz[2]>>

\* --------------------------------------------------- app.rs: frame and events
Events ==
    {<<"close">>, <<"redraw">>, <<"input">>, <<"other">>}
    \cup {<<"resized", w, h>> : w \in Widths, h \in Heights}

\* how a redraw can go: no failure, the "blow up" button was pressed, the ImGui renderer
\* fails, swap_buffers fails
RenderFailures == {"none", "build", "glow_render", "swap_buffers"}

\* app.rs 154-200: VeilDEApplication::gui
Gui(abort) ==
    IF abort
    THEN [ops |-> <<"new_frame", "build">>, err |-> Some(<<"boom">>)]
    ELSE [ops |-> <<"new_frame", "build", "build_taskbar">>, err |-> None]

\* the delta time with unwrap_or(now) replaced by a fixed start of the clock
DeltaTime_SinceClockStart(last, now) == IF last = None THEN now ELSE now - last[1]

\* now - last_frame.unwrap_or(now)
DeltaTime(last, now) == IF last = None THEN 0 ELSE now - last[1]

\* Render with the `?` after gui() forgotten: the frame is submitted and presented before
\* the abort is returned
Render_NoShortCircuit(last, now, fail) ==
    LET g == Gui(fail = "build")
    IN [ops |-> <<"update_delta_time", "clear">> \o g.ops \o <<"glow_render", "swap_buffers">>,
        err |-> IF g.err # None THEN Some(WithContext("Failed to render VeilDE GUI", g.err[1]))
                ELSE IF fail = "glow_render" THEN Some(<<"Failed to render ImGui renderer data">>)
                ELSE IF fail = "swap_buffers" THEN Some(<<"Failed to swap surface buffers", "glutin error">>)
                ELSE None,
        delta |-> Some(DeltaTime(last, now)),
        last_frame |-> Some(now)]

\* app.rs 202-222: VeilDEApplication::render
Render(last, now, fail) ==
    LET head == <<"update_delta_time", "clear">>
        g == Gui(fail = "build")
        base == [ops |-> head \o g.ops, err |-> None, delta |-> Some(DeltaTime(last, now)),
                 last_frame |-> Some(now)]
    IN IF g.err # None
       THEN [base EXCEPT !.err = Some(WithContext("Failed to render VeilDE GUI", g.err[1]))]
       ELSE IF fail = "glow_render"
       THEN [base EXCEPT !.ops = @ \o <<"glow_render">>,
                         !.err = Some(<<"Failed to render ImGui renderer data">>)]
       ELSE IF fail = "swap_buffers"
       THEN [base EXCEPT !.ops = @ \o <<"glow_render", "swap_buffers">>,
                         !.err = Some(<<"Failed to swap surface buffers", "glutin error">>)]
       ELSE [base EXCEPT !.ops = @ \o <<"glow_render", "swap_buffers">>]

\* perform with the close arm's two calls swapped: exit is asked before the renderer is shut down
Perform_ExitBeforeShutdown(st, event, now, fail) ==
    LET out == [initialised |-> st.initialised, last_frame |-> st.last_frame,
                surface |-> st.surface, viewport |-> st.viewport,
                ops |-> <<>>, err |-> None, delta |-> None,
                translated |-> <<>>]
    IN IF ~st.initialised THEN out
       ELSE IF event = <<"close">>
       THEN [out EXCEPT !.translated = <<event>>, !.ops = <<"translate", "exit", "shutdown", "request_redraw">>]
       ELSE IF event = <<"redraw">>
       THEN LET r == Render(st.last_frame, now, fail)
            IN IF r.err # None
               THEN [out EXCEPT !.translated = <<event>>, !.ops = <<"translate">> \o r.ops,
                                !.err = Some(WithContext("Failed to draw VeilDE application", r.err[1])),
                                !.delta = r.delta, !.last_frame = r.last_frame]
               ELSE [out EXCEPT !.translated = <<event>>, !.ops = <<"translate">> \o r.ops \o <<"request_redraw">>,
                                !.delta = r.delta, !.last_frame = r.last_frame]
       ELSE [out EXCEPT !.translated = <<event>>, !.ops = <<"translate", "request_redraw">>]

\* perform with the close arm returning right after exit(): no redraw is asked after a close
Perform_NoRedrawAfterClose(st, event, now, fail) ==
    LET out == [initialised |-> st.initialised, last_frame |-> st.last_frame,
                surface |-> st.surface, viewport |-> st.viewport,
                ops |-> <<>>, err |-> None, delta |-> None,
                translated |-> <<>>]
    IN IF ~st.initialised THEN out
       ELSE IF event = <<"close">>
       THEN [out EXCEPT !.translated = <<event>>, !.ops = <<"translate", "shutdown", "exit">>]
       ELSE IF event = <<"redraw">>
       THEN LET r == Render(st.last_frame, now, fail)
            IN IF r.err # None
               THEN [out EXCEPT !.translated = <<event>>, !.ops = <<"translate">> \o r.ops,
                                !.err = Some(WithContext("Failed to draw VeilDE application", r.err[1])),
                                !.delta = r.delta, !.last_frame = r.last_frame]
               ELSE [out EXCEPT !.translated = <<event>>, !.ops = <<"translate">> \o r.ops \o <<"request_redraw">>,
                                !.delta = r.delta, !.last_frame = r.last_frame]
       ELSE [out EXCEPT !.translated = <<event>>, !.ops = <<"translate", "request_redraw">>]

\* perform with pre_window_event called in the `_` arm only: close and redraw events are
\* not handed to the UI input translator
Perform_TranslateOtherOnly(st, event, now, fail) ==
    LET out == [initialised |-> st.initialised, last_frame |-> st.last_frame,
                surface |-> st.surface, viewport |-> st.viewport,
                ops |-> <<>>, err |-> None, delta |-> None,
                translated |-> <<>>]
    IN IF ~st.initialised THEN out
       ELSE IF event = <<"close">>
       THEN [out EXCEPT !.ops = <<"shutdown", "exit", "request_redraw">>]
       ELSE IF event = <<"redraw">>
       THEN LET r == Render(st.last_frame, now, fail)
            IN IF r.err # None
               THEN [out EXCEPT !.ops = r.ops,
                                !.err = Some(WithContext("Failed to draw VeilDE application", r.err[1])),
                                !.delta = r.delta, !.last_frame = r.last_frame]
               ELSE [out EXCEPT !.ops = r.ops \o <<"request_redraw">>,
                                !.delta = r.delta, !.last_frame = r.last_frame]
       ELSE [out EXCEPT !.translated = <<event>>, !.ops = <<"translate", "request_redraw">>]

\* perform with the redraw request moved out of the `if let Some(app)`: a window event asks
\* for a redraw also while there is no application
Perform_RedrawWhenUninitialised(st, event, now, fail) ==
    LET out == [initialised |-> st.initialised, last_frame |-> st.last_frame,
                surface |-> st.surface, viewport |-> st.viewport,
                ops |-> <<>>, err |-> None, delta |-> None,
                translated |-> <<>>]
    IN IF ~st.initialised THEN [out EXCEPT !.ops = <<"request_redraw">>]
       ELSE IF event = <<"close">>
       THEN [out EXCEPT !.translated = <<event>>, !.ops = <<"translate", "shutdown", "exit", "request_redraw">>]
       ELSE IF event = <<"redraw">>
       THEN LET r == Render(st.last_frame, now, fail)
            IN IF r.err # None
               THEN [out EXCEPT !.translated = <<event>>, !.ops = <<"translate">> \o r.ops,
                                !.err = Some(WithContext("Failed to draw VeilDE application", r.err[1])),
                                !.delta = r.delta, !.last_frame = r.last_frame]
               ELSE [out EXCEPT !.translated = <<event>>, !.ops = <<"translate">> \o r.ops \o <<"request_redraw">>,
                                !.delta = r.delta, !.last_frame = r.last_frame]
       ELSE [out EXCEPT !.translated = <<event>>, !.ops = <<"translate", "request_redraw">>]

\* app.rs 240-261: the closure `perform` of window_event.
\* st = [initialised, last_frame, surface, viewport]; returns the same fields as updated,
\* with the calls made (ops), the error returned (err), the delta time fed to the UI and
\* the events handed to the UI input translator (translated).
Perform(st, event, now, fail) ==
    LET out == [initialised |-> st.initialised, last_frame |-> st.last_frame,
                surface |-> st.surface, viewport |-> st.viewport,
                ops |-> <<>>, err |-> None, delta |-> None,
                translated |-> <<>>]
    IN IF ~st.initialised THEN out
       ELSE IF event = <<"close">>
       THEN [out EXCEPT !.translated = <<event>>, !.ops = <<"translate", "shutdown", "exit", "request_redraw">>]
       ELSE IF event = <<"redraw">>
       THEN LET r == Render(st.last_frame, now, fail)
            IN IF r.err # None
               THEN [out EXCEPT !.translated = <<event>>, !.ops = <<"translate">> \o r.ops,
                                !.err = Some(WithContext("Failed to draw VeilDE application", r.err[1])),
                                !.delta = r.delta, !.last_frame = r.last_frame]
               ELSE [out EXCEPT !.translated = <<event>>, !.ops = <<"translate">> \o r.ops \o <<"request_redraw">>,
                                !.delta = r.delta, !.last_frame = r.last_frame]
       ELSE [out EXCEPT !.translated = <<event>>, !.ops = <<"translate", "request_redraw">>]

\* OnError with the exit request forgotten: the error is sent, the loop keeps running
OnError_NoExit(p) ==
    IF p.err # None THEN [p EXCEPT !.ops = @ \o <<"send_error">>] ELSE p

\* app.rs 263-267 (gui.rs 162-166): an error of `perform` is sent and the loop asked to exit
OnError(p) ==
    IF p.err # None THEN [p EXCEPT !.ops = @ \o <<"send_error", "exit">>] ELSE p

\* ------------------------------------------------- gui.rs: frame and events
\* gui.rs 64-79: VeilDEApplication::draw
GuiDraw(abort) ==
    IF abort
    THEN [ops |-> <<"new_frame", "build">>, err |-> Some(<<"boom">>)]
    ELSE [ops |-> <<"new_frame", "build">>, err |-> None]

\* the Resized arm with `||` for `&&` in its guard
Resized_EitherDimension(st, w, h) ==
    IF w > 0 \/ h > 0
    THEN [st EXCEPT !.surface = <<w, h>>, !.viewport = <<0, 0, w, h>>,
                    !.ops = @ \o <<"surface_resize", "viewport">>]
    ELSE st

\* gui.rs 113-130: the Resized arm
Resized(st, w, h) ==
    IF w > 0 /\ h > 0
    THEN [st EXCEPT !.surface = <<w, h>>, !.viewport = <<0, 0, w, h>>,
                    !.ops = @ \o <<"surface_resize", "viewport">>]
    ELSE st

\* gui.rs 88-160: the closure `perform` of window_event
GuiPerform(st, event, now, fail) ==
    LET out == [initialised |-> st.initialised, last_frame |-> st.last_frame,
                surface |-> st.surface, viewport |-> st.viewport,
                ops |-> <<>>, err |-> None, delta |-> None,
                translated |-> <<>>]
        done(o) == [o EXCEPT !.ops = @ \o <<"request_redraw">>]
    IN IF event = <<"close">>
       THEN done([out EXCEPT !.ops = <<"exit">>])
       ELSE IF event = <<"redraw">>
       THEN LET head == [out EXCEPT !.ops = <<"update_delta_time", "clear">>,
                                    !.delta = Some(DeltaTime(st.last_frame, now)),
                                    !.last_frame = Some(now)]
                d == GuiDraw(fail = "build")
                drawn == [head EXCEPT !.ops = @ \o d.ops]
            IN IF d.err # None
               THEN [drawn EXCEPT !.err = d.err]
               ELSE IF fail = "glow_render"
               THEN [drawn EXCEPT !.ops = @ \o <<"glow_render">>,
                                  !.err = Some(<<"Failed to render ImGui renderer data">>)]
               ELSE IF fail = "swap_buffers"
               THEN [drawn EXCEPT !.ops = @ \o <<"glow_render", "swap_buffers">>,
                                  !.err = Some(<<"Failed to swap surface buffers", "glutin error">>)]
               ELSE done([drawn EXCEPT !.ops = @ \o <<"glow_render", "swap_buffers">>])
       ELSE IF event[1] = "resized"
       THEN done(Resized(out, event[2], event[3]))
       ELSE IF event = <<"input">>
       THEN done([out EXCEPT !.ops = <<"add_input_event">>])
       ELSE done(out)

\* ------------------------------------------------------------ state machine
Init ==
    /\ handler \in {"app", "gui"}
    /\ pc = "start"
    /\ application = None
    /\ errors = <<>>
    /\ received = 0
    /\ exitRequested = FALSE
    /\ driverFailed = FALSE
    /\ result = None
    /\ surface = None
    /\ viewport = None
    /\ swapInterval = None
    /\ lastFrame = None
    /\ clock = 0
    /\ gl = EmptyGl
    /\ rnew = NoRendererCall
    /\ created = [window |-> 0, context |-> 0, surface |-> 0, program |-> 0]
    /\ shutdowns = 0
    /\ cb = NoCallback
    /\ callbacks = 0
    /\ afterExit = 0
    /\ lastResize = None
    /\ frames = 0
    /\ window = None

\* The platform delivers a callback while run_app runs; after exit() was asked it may
\* still deliver the callbacks of the iteration in progress.
Deliverable ==
    /\ pc = "running"
    /\ callbacks < MaxCallbacks
    /\ exitRequested => afterExit < MaxAfterExit

Delivered ==
    /\ callbacks' = callbacks + 1
    /\ afterExit' = IF exitRequested THEN afterExit + 1 ELSE afterExit

\* app.rs 404-410: init() up to run_app; EventLoop::new may fail
InitStart ==
    /\ handler = "app"
    /\ pc = "start"
    /\ \E ok \in BOOLEAN :
        IF ok
        THEN pc' = "running" /\ result' = result
        ELSE pc' = "done" /\ result' = Some(<<"Err", StartupError("event_loop")>>)
    /\ UNCHANGED <<handler, lastResize, frames, window, application, errors, received, exitRequested, driverFailed, surface,
                   viewport, swapInterval, lastFrame, clock, gl, rnew, created, shutdowns, cb,
                   callbacks, afterExit>>

\* gui.rs 307-326: init() up to run_app creates the window, context, surface and UI
GuiInitStart ==
    /\ handler = "gui"
    /\ pc = "start"
    /\ \E fail \in StartupFailures(GuiStartupSteps) :
        /\ created' = AddCreated(created, CreatedBy(GuiStartupSteps, fail, [program |-> None]))
        /\ cb' = [NoCallback EXCEPT !.kind = "init", !.startup = StepsRun(GuiStartupSteps, fail),
                                    !.outcome = CASE fail[1] = "none" -> "ok"
                                                  [] fail[1] = "config_unwrap" -> "panic"
                                                  [] OTHER -> "err"]
        /\ CASE fail[1] = "none" ->
                  /\ pc' = "running"
                  /\ result' = result
                  /\ window' = Some(GuiWindowSize)
                  /\ surface' = WINDOW_SIZE
                  /\ viewport' = InitialViewport(WINDOW_SIZE)
                  /\ swapInterval' = Some(SWAP_INTERVAL)
             [] fail[1] = "config_unwrap" ->
                  /\ pc' = "panicked"
                  /\ UNCHANGED <<result, surface, viewport, swapInterval, window>>
             [] OTHER ->
                  /\ pc' = "done"
                  /\ result' = Some(<<"Err", StartupError(fail[2])>>)
                  /\ UNCHANGED <<surface, viewport, swapInterval, window>>
    /\ UNCHANGED <<handler, lastResize, frames, application, errors, received, exitRequested,
                   driverFailed, lastFrame, clock, gl, rnew, shutdowns, callbacks, afterExit>>

\* app.rs 226-237: ApplicationHandler::resumed
ResumedAction ==
    /\ handler = "app"
    /\ Deliverable
    /\ Delivered
    /\ LET base == [NoCallback EXCEPT !.kind = "resumed", !.exitBefore = exitRequested,
                                      !.initialised = (application # None),
                                      !.surfaceBefore = surface, !.viewportBefore = viewport,
                                      !.errorsBefore = Len(errors)]
       IN IF ~ShouldStart(application)
          THEN /\ cb' = [base EXCEPT !.outcome = "ok"]
               /\ UNCHANGED <<pc, application, errors, exitRequested, surface, viewport,
                              swapInterval, lastFrame, gl, rnew, created, window>>
          ELSE \E fail \in StartupFailures(AppStartupSteps) : \E resolution \in VideoModes :
                LET r == ApplicationNew(fail)
                IN /\ created' = AddCreated(created, CreatedBy(AppStartupSteps, fail, r.rn))
                   /\ rnew' = IF r.ranRenderer
                              THEN [called |-> TRUE,
                                    failAt |-> IF fail[1] = "renderer" THEN fail[2] ELSE <<"none">>,
                                    before |-> EmptyGl.live, after |-> r.rn.gl.live,
                                    err |-> r.rn.err, ops |-> r.rn.ops]
                              ELSE rnew
                   /\ IF r.panic
                      THEN /\ pc' = "panicked"
                           /\ cb' = [base EXCEPT !.startup = r.steps, !.outcome = "panic"]
                           /\ UNCHANGED <<application, errors, exitRequested, surface, viewport,
                                          swapInterval, lastFrame, gl, window>>
                      ELSE IF r.err # None
                      THEN /\ errors' = Append(errors, r.err[1])
                           /\ exitRequested' = TRUE
                           /\ cb' = [base EXCEPT !.startup = r.steps, !.outcome = "err", !.sent = 1,
                                                 !.ops = <<"send_error", "exit">>]
                           /\ UNCHANGED <<pc, application, surface, viewport, swapInterval,
                                          lastFrame, gl, window>>
                      ELSE /\ application' = Some([program |-> r.rn.program[1],
                                                   vertex_array |-> r.rn.vertex_array[1],
                                                   resolution |-> resolution])
                           /\ window' = Some(AppWindowSize(resolution))
                           /\ surface' = WINDOW_SIZE
                           /\ viewport' = InitialViewport(WINDOW_SIZE)
                           /\ swapInterval' = Some(SWAP_INTERVAL)
                           /\ lastFrame' = None
                           /\ gl' = r.rn.gl
                           /\ cb' = [base EXCEPT !.startup = r.steps, !.outcome = "ok"]
                           /\ UNCHANGED <<pc, errors, exitRequested>>
    /\ UNCHANGED <<handler, lastResize, frames, received, driverFailed, result, clock, shutdowns>>

\* gui.rs 83-85: resumed does nothing
GuiResumedAction ==
    /\ handler = "gui"
    /\ Deliverable
    /\ Delivered
    /\ cb' = [NoCallback EXCEPT !.kind = "resumed", !.exitBefore = exitRequested,
                                !.initialised = TRUE, !.outcome = "ok",
                                !.surfaceBefore = surface, !.viewportBefore = viewport,
                                !.errorsBefore = Len(errors)]
    /\ UNCHANGED <<handler, lastResize, frames, window, pc, application, errors, received, exitRequested, driverFailed,
                   result, surface, viewport, swapInterval, lastFrame, clock, gl, rnew,
                   created, shutdowns>>

\* the state a window_event callback works on
HandlerState ==
    [initialised |-> (handler = "gui" \/ application # None), last_frame |-> lastFrame,
     surface |-> surface, viewport |-> viewport]

\* the effect of a finished window_event callback p on the state
Effect(p, event, now) ==
    /\ errors' = IF p.err # None THEN Append(errors, p.err[1]) ELSE errors
    /\ exitRequested' = (exitRequested \/ Has(p.ops, "exit"))
    /\ surface' = p.surface
    /\ viewport' = p.viewport
    /\ lastFrame' = p.last_frame
    /\ clock' = now
    /\ lastResize' = IF HandlerState.initialised /\ event[1] = "resized" /\ event[2] > 0 /\ event[3] > 0
                     THEN Some(<<event[2], event[3]>>)
                     ELSE lastResize
    /\ frames' = frames + Count(p.ops, "update_delta_time")
    /\ shutdowns' = shutdowns + Count(p.ops, "shutdown")
    /\ gl' = IF Has(p.ops, "shutdown")
             THEN RendererShutdown(gl, application[1].program, application[1].vertex_array)
             ELSE gl
    /\ cb' = [kind |-> "window_event", event |-> event, exitBefore |-> exitRequested,
              initialised |-> HandlerState.initialised, ops |-> p.ops, startup |-> <<>>,
              outcome |-> IF p.err # None THEN "err" ELSE "ok",
              sent |-> Count(p.ops, "send_error"), delta |-> p.delta,
              translated |-> p.translated,
              surfaceBefore |-> surface, viewportBefore |-> viewport,
              errorsBefore |-> Len(errors)]

\* the inputs of one window_event callback: the event, the clock reading a redraw takes,
\* and how the redraw goes
Readings(event) == IF event = <<"redraw">> THEN clock..MaxClock ELSE {clock}

Failures(event) == IF event = <<"redraw">> THEN RenderFailures ELSE {"none"}

\* app.rs 239-268: ApplicationHandler::window_event
WindowEventAction ==
    /\ handler = "app"
    /\ Deliverable
    /\ Delivered
    /\ \E event \in Events : \E now \in Readings(event) : \E fail \in Failures(event) :
        Effect(OnError(Perform(HandlerState, event, now, fail)), event, now)
    /\ UNCHANGED <<handler, pc, application, received, driverFailed, result, swapInterval,
                   rnew, created, window>>

\* gui.rs 87-167: ApplicationHandler::window_event
GuiWindowEventAction ==
    /\ handler = "gui"
    /\ Deliverable
    /\ Delivered
    /\ \E event \in Events : \E now \in Readings(event) : \E fail \in Failures(event) :
        Effect(OnError(GuiPerform(HandlerState, event, now, fail)), event, now)
    /\ UNCHANGED <<handler, pc, application, received, driverFailed, result, swapInterval,
                   rnew, created, window>>

\* app.rs 412-414 (gui.rs 328-340): run_app returns Ok once exit() was asked
RunAppReturns ==
    /\ pc = "running"
    /\ exitRequested
    /\ pc' = "returned"
    /\ UNCHANGED <<handler, lastResize, frames, window, application, errors, received, exitRequested, driverFailed, result,
                   surface, viewport, swapInterval, lastFrame, clock, gl, rnew, created,
                   shutdowns, cb, callbacks, afterExit>>

\* app.rs 412-414 (gui.rs 328-340): run_app returns Err; `?` returns it from init() at once
RunAppFails ==
    /\ pc = "running"
    /\ ~exitRequested
    /\ pc' = "done"
    /\ driverFailed' = TRUE
    /\ result' = Some(<<"Err", <<"Failed to run app loop", "event loop error">> >>)
    /\ UNCHANGED <<handler, lastResize, frames, window, application, errors, received, exitRequested, surface, viewport,
                   swapInterval, lastFrame, clock, gl, rnew, created, shutdowns, cb, callbacks,
                   afterExit>>

\* try_recv handing out the newest error instead of the oldest
TryRecv_Newest(sent) == IF sent # <<>> THEN Some(sent[Len(sent)]) ELSE None

\* rx.try_recv(): the oldest error still in the channel, if any
TryRecv(sent) == IF sent # <<>> THEN Some(Head(sent)) ELSE None

\* app.rs 416-420 (gui.rs 342-346): init() reads the channel once and returns
InitDrain ==
    /\ pc = "returned"
    /\ pc' = "done"
    /\ received' = received + 1
    /\ result' = IF TryRecv(errors) # None THEN Some(<<"Err", TryRecv(errors)[1]>>) ELSE Some(<<"Ok">>)
    /\ UNCHANGED <<handler, lastResize, frames, window, application, errors, exitRequested, driverFailed, surface, viewport,
                   swapInterval, lastFrame, clock, gl, rnew, created, shutdowns, cb, callbacks,
                   afterExit>>

Next ==
    \/ InitStart
    \/ GuiInitStart
    \/ ResumedAction
    \/ GuiResumedAction
    \/ WindowEventAction
    \/ GuiWindowEventAction
    \/ RunAppReturns
    \/ RunAppFails
    \/ InitDrain

Spec == Init /\ [][Next]_vars

TypeOK ==
    /\ handler \in {"app", "gui"}
    /\ pc \in {"start", "running", "returned", "done", "panicked"}
    /\ callbacks \in 0..MaxCallbacks
    /\ afterExit \in 0..MaxAfterExit
    /\ clock \in 0..MaxClock
    /\ received \in 0..1
    /\ Len(errors) <= MaxCallbacks

\* ------------------------------------------------------------------ claims
IsWindowEvent(e) == cb.kind = "window_event" /\ cb.initialised /\ cb.event = e

IsResize == cb.kind = "window_event" /\ cb.initialised /\ cb.event[1] = "resized"

LastError == errors[Len(errors)]

\* C1: a close or redraw callback that raised an error has, by its end, sent that one error
\* on the channel and asked the loop to exit; the frame was attempted once and the callback
\* asked for no further redraw.
C1_ErrorSentAndExitAsked ==
    (cb.kind = "window_event" /\ cb.event \in {<<"close">>, <<"redraw">>} /\ cb.outcome = "err") =>
        /\ Len(errors) = cb.errorsBefore + 1
        /\ cb.sent = 1
        /\ Has(cb.ops, "exit")
        /\ exitRequested
        /\ Count(cb.ops, "new_frame") <= 1
        /\ ~Has(cb.ops, "request_redraw")

C1_Witness ==
    /\ cb.kind = "window_event" /\ cb.event = <<"redraw">> /\ cb.outcome = "err"
    /\ ~cb.exitBefore
    /\ exitRequested
    /\ Len(errors) = 1

\* C2: in a run of the handler main.rs installs (app.rs), at most one error is ever written
\* to the fatal-error channel, whatever callbacks the platform delivers.
C2_AtMostOneError == handler = "app" => Len(errors) <= 1

\* C3: a redraw whose UI build aborts ("blow up") neither submits draw data nor swaps
\* buffers, sends the abort as the error and asks the loop to exit; a redraw whose draw-data
\* submission fails does not swap buffers.
C3_FailedStageEndsFrame ==
    (IsWindowEvent(<<"redraw">>) /\ cb.outcome = "err") =>
        /\ RootCause(LastError) = "boom" =>
              /\ ~Has(cb.ops, "glow_render")
              /\ ~Has(cb.ops, "swap_buffers")
              /\ ~Has(cb.ops, "build_taskbar")
        /\ RootCause(LastError) = "Failed to render ImGui renderer data" =>
              ~Has(cb.ops, "swap_buffers")
        /\ Len(errors) = cb.errorsBefore + 1
        /\ exitRequested

C3_Witness ==
    /\ IsWindowEvent(<<"redraw">>) /\ cb.outcome = "err"
    /\ RootCause(LastError) = "boom"
    /\ Has(cb.ops, "build")
    /\ exitRequested

\* C4: a callback of the handler main.rs installs (app.rs) that is delivered after exit()
\* was asked (close or fatal error) starts no frame: it builds no UI frame, issues no GL
\* clear or draw and does not swap buffers.
C4_NoFrameAfterExit ==
    (handler = "app" /\ cb.exitBefore) =>
        /\ ~Has(cb.ops, "new_frame")
        /\ ~Has(cb.ops, "clear")
        /\ ~Has(cb.ops, "glow_render")
        /\ ~Has(cb.ops, "swap_buffers")

\* C5: once init() has returned after running the loop, it has read the channel at most once
\* (once when run_app returned Ok); it returned Err exactly when an error was sent or the
\* loop driver failed, the error of the channel it reports is the first one sent, and it
\* returned Ok when nothing was sent.
C5_InitReportsFirstError ==
    (pc = "done" /\ (received > 0 \/ driverFailed)) =>
        /\ received <= 1
        /\ ~driverFailed => received = 1
        /\ (result[1][1] = "Err") <=> (errors # <<>> \/ driverFailed)
        /\ errors # <<>> => result = Some(<<"Err", errors[1]>>)
        /\ (errors = <<>> /\ ~driverFailed) => result = Some(<<"Ok">>)

C5_Witness ==
    /\ pc = "done"
    /\ received = 1
    /\ Len(errors) = 2
    /\ errors[1] # errors[2]
    /\ result = Some(<<"Err", errors[1]>>)

\* C6: a Resized event with width 0 or height 0 leaves the surface size and the viewport as
\* they were, raises no error and sends nothing on the channel.
C6_DegenerateResizeIsNoOp ==
    (cb.kind = "window_event" /\ cb.event[1] = "resized" /\ (cb.event[2] = 0 \/ cb.event[3] = 0)) =>
        /\ surface = cb.surfaceBefore
        /\ viewport = cb.viewportBefore
        /\ Len(errors) = cb.errorsBefore
        /\ cb.outcome = "ok"
        /\ ~Has(cb.ops, "surface_resize")
        /\ ~Has(cb.ops, "viewport")

C6_Witness ==
    /\ handler = "gui"
    /\ IsResize
    /\ cb.event[2] = 0 /\ cb.event[3] > 0
    /\ surface = <<800, 600>>
    /\ viewport = <<0, 0, 800, 600>>

\* C7: after a Resized(w, h) event with w > 0 and h > 0 handled by the initialised
\* application, the surface has size (w, h), the viewport is (0, 0, w, h) and no error was raised.
C7_ResizeSetsSurfaceAndViewport ==
    (IsResize /\ cb.event[2] > 0 /\ cb.event[3] > 0) =>
        /\ surface = <<cb.event[2], cb.event[3]>>
        /\ viewport = <<0, 0, cb.event[2], cb.event[3]>>
        /\ cb.outcome = "ok"

\* C8: after any sequence of Resized events, the surface size and the viewport are those of
\* the most recent event whose dimensions were both non-zero.
C8_LastGoodResizeWins ==
    lastResize # None =>
        /\ surface = lastResize[1]
        /\ viewport = <<0, 0, lastResize[1][1], lastResize[1][2]>>

\* C9: when both stages compile and the link fails, VeilDERenderer::new returns an error and
\* no stage shader object is live when it returns.
C9_LinkFailureDeletesStages ==
    (rnew.called /\ rnew.failAt = <<"link">>) =>
        /\ rnew.err # None
        /\ ~\E h \in rnew.after : h.kind = "shader"

\* C10: when a stage fails to compile, VeilDERenderer::new returns the driver's info log as
\* the error and the live GL handles after the call are those live before it.
C10_CompileFailureLeaksNothing ==
    (rnew.called /\ rnew.failAt[1] = "compile") =>
        /\ rnew.err = Some(<<ShaderInfoLog(rnew.failAt[2])>>)
        /\ rnew.after = rnew.before

\* C11: in a run of the handler main.rs installs (app.rs), VeilDERenderer::shutdown is
\* called at most once, whatever events the platform delivers.
C11_ShutdownAtMostOnce == handler = "app" => shutdowns <= 1

\* C12: when a run of app.rs whose startup succeeded has its loop return after a close
\* request or a fatal in-loop error, the program and the vertex array made at startup are
\* no longer live.
C12_ResourcesDeletedAtReturn ==
    (handler = "app" /\ application # None /\ ~driverFailed /\ pc \in {"returned", "done"}) =>
        /\ application[1].program \notin gl.live
        /\ application[1].vertex_array \notin gl.live

\* the stages of a frame the claims speak of
FrameStages ==
    {"update_delta_time", "clear", "renderer_draw", "new_frame", "build", "glow_render", "swap_buffers"}

IsFrameStage(op) == op \in FrameStages

\* C13: a redraw handled without error by app.rs performs, once each and in this order: the
\* delta-time update, the clear, the renderer's draw() of the triangle, the UI frame begin,
\* the UI build, the draw-data submission and swap_buffers.
C13_FrameStagesInOrder ==
    (handler = "app" /\ IsWindowEvent(<<"redraw">>) /\ cb.outcome = "ok") =>
        SelectSeq(cb.ops, IsFrameStage) =
            <<"update_delta_time", "clear", "renderer_draw", "new_frame", "build", "glow_render",
              "swap_buffers">>

\* C14: a close request handled by app.rs shuts the renderer down and then asks the loop to
\* exit, both in the same callback, and exit has been asked when the callback ends however
\* it ends.
C14_ShutdownThenExit ==
    (handler = "app" /\ IsWindowEvent(<<"close">>)) =>
        /\ Count(cb.ops, "shutdown") = 1
        /\ Has(cb.ops, "exit")
        /\ IndexOf(cb.ops, "shutdown") < IndexOf(cb.ops, "exit")
        /\ exitRequested

C14_Witness ==
    /\ handler = "app"
    /\ IsWindowEvent(<<"close">>)
    /\ ~cb.exitBefore
    /\ shutdowns = 1
    /\ exitRequested

\* the stage of startup each step of VeilDEApplication::new belongs to, numbered in the
\* order the code runs them: 1 window and configuration (one DisplayBuilder::build call),
\* 2 context, 3 surface, 4 UI binding, 5 swap interval, 6 GPU program
StartupSteps == {AppStartupSteps[k] : k \in 1..Len(AppStartupSteps)}

\* the place of each step of VeilDEApplication::new in the list window and configuration,
\* context, surface, UI binding, swap interval, GPU program
StartupStage ==
    [step \in StartupSteps |->
    CASE step \in {"monitor", "video_mode", "display_build", "window"} -> 1
      [] step = "context" -> 2
      [] step \in {"surface", "make_current"} -> 3
      [] step \in {"imgui", "glow", "winit"} -> 4
      [] step = "swap_interval" -> 5
      [] step = "renderer" -> 6]

\* a startup that ran the steps `run` and ended as `outcome` kept to the order `stage`:
\* no step ran before a step of an earlier stage, a step ran only after every step of the
\* earlier stages, the step that failed is the last one that ran, and a startup that
\* succeeded ran them all
StartupKeptOrder(run, outcome, stage) ==
    /\ \A i, j \in 1..Len(run) : i < j => stage[run[i]] <= stage[run[j]]
    /\ \A j \in 1..Len(run) : \A k \in 1..Len(AppStartupSteps) :
          stage[AppStartupSteps[k]] < stage[run[j]] =>
              \E i \in 1..(j - 1) : run[i] = AppStartupSteps[k]
    /\ outcome = "err" =>
          LET last == run[Len(run)]
          IN IF last = "renderer"
             THEN LastError[1] = "Failed to create VeilDE renderer"
             ELSE last \in FallibleSteps /\ LastError = StartupError(last)
    /\ outcome = "ok" => \A k \in 1..Len(AppStartupSteps) : Has(run, AppStartupSteps[k])

IsStartup == handler = "app" /\ cb.kind = "resumed" /\ cb.startup # <<>>

\* C15 as stated: VeilDEApplication::new runs window, configuration, context, surface, swap
\* interval, UI binding, GPU program in that order, each only after all earlier ones
\* succeeded, a failure preventing all later ones.
C15_ClaimedStartupOrder ==
    IsStartup =>
        LET claimed ==
                [step \in StartupSteps |->
                CASE step \in {"monitor", "video_mode", "display_build", "window"} -> 1
                  [] step = "context" -> 2
                  [] step \in {"surface", "make_current"} -> 3
                  [] step = "swap_interval" -> 4
                  [] step \in {"imgui", "glow", "winit"} -> 5
                  [] step = "renderer" -> 6]
        IN StartupKeptOrder(cb.startup, cb.outcome, claimed)

\* C15 as amended: VeilDEApplication::new runs window, configuration, context, surface, UI
\* binding, swap interval, GPU program in that order, each only after all earlier ones
\* succeeded, a failure preventing all later ones.
C15_StartupOrder ==
    IsStartup => StartupKeptOrder(cb.startup, cb.outcome, StartupStage)

C15_Witness ==
    /\ IsStartup
    /\ cb.outcome = "err"
    /\ cb.startup[Len(cb.startup)] = "swap_interval"
    /\ Has(cb.startup, "winit")
    /\ ~Has(cb.startup, "renderer")
    /\ application = None

\* a startup that succeeded has just ended (resumed() in app.rs, init() in gui.rs)
StartupSucceeded == cb.kind \in {"resumed", "init"} /\ cb.startup # <<>> /\ cb.outcome = "ok"

IsStartupError(chain) ==
    \/ chain \in {StartupError(step) : step \in FallibleSteps}
    \/ chain[1] = "Failed to create VeilDE renderer"

SwapIntervalFailed ==
    \/ Has(errors, StartupError("swap_interval"))
    \/ result = Some(<<"Err", StartupError("swap_interval")>>)

\* C16: a successful startup sets the swap interval once, to 1, after the surface was
\* created and before any frame; when setting it failed, a fatal error is reported and no
\* frame is ever rendered in the run.
C16_SwapIntervalOnceBeforeFrames ==
    /\ StartupSucceeded =>
          /\ Count(cb.startup, "swap_interval") = 1
          /\ IndexOf(cb.startup, "surface") < IndexOf(cb.startup, "swap_interval")
          /\ swapInterval = Some(1)
          /\ frames = 0
    /\ frames > 0 => swapInterval = Some(1)
    /\ SwapIntervalFailed => frames = 0

\* C17: once a startup step of app.rs has failed, the application is uninitialised, the
\* channel holds exactly one error, exit has been asked and no frame has been rendered.
C17_StartupFailureReportedOnce ==
    (handler = "app" /\ \E i \in 1..Len(errors) : IsStartupError(errors[i])) =>
        /\ application = None
        /\ Len(errors) = 1
        /\ exitRequested
        /\ frames = 0

\* C18: every frame feeds the UI a delta time of 0 when it is the first frame of the run and
\* of its timestamp minus the previous frame's otherwise, and leaves its timestamp in
\* last_frame, whether the frame then fails or not.
C18_DeltaTimeBetweenFrames ==
    [][(/\ callbacks' = callbacks + 1
        /\ cb'.kind = "window_event"
        /\ cb'.event = <<"redraw">>
        /\ cb'.initialised)
       => (/\ frames' = frames + 1
           /\ cb'.delta = Some(IF frames = 0 THEN 0 ELSE clock' - lastFrame[1])
           /\ lastFrame' = Some(clock'))]_vars

C18_Witness ==
    /\ IsWindowEvent(<<"redraw">>)
    /\ frames = 2
    /\ cb.delta = Some(1)
    /\ cb.outcome = "err"
    /\ lastFrame = Some(clock)

\* C19: after a successful startup the surface has the size that was asked for the window.
C19_SurfaceHasWindowSize == StartupSucceeded => surface = window[1]

Ones == [window |-> 1, context |-> 1, surface |-> 1, program |-> 1]

HandledWindowEvent == cb.kind = "window_event" /\ cb.initialised

\* C21: a window event of any kind handled without error while the application is
\* initialised ends with exactly one request for another redraw, made after the event's
\* own handling; a callback that ends in a fatal error requests none.
C21_OneRedrawRequestPerEvent ==
    HandledWindowEvent =>
        /\ cb.outcome = "ok" =>
              /\ Count(cb.ops, "request_redraw") = 1
              /\ cb.ops[Len(cb.ops)] = "request_redraw"
        /\ cb.outcome = "err" => ~Has(cb.ops, "request_redraw")

C21_Witness ==
    /\ handler = "app"
    /\ IsWindowEvent(<<"close">>)
    /\ cb.outcome = "ok"
    /\ Count(cb.ops, "request_redraw") = 1

\* C22: while the application of app.rs is initialised, each window_event callback hands
\* exactly the event it was delivered to the UI input translator, once, as its first call,
\* so the translated events are the delivered events in the order of delivery.
C22_DeliveredEventTranslatedFirst ==
    (handler = "app" /\ HandledWindowEvent) =>
        /\ cb.translated = <<cb.event>>
        /\ Count(cb.ops, "translate") = 1
        /\ cb.ops[1] = "translate"

C22_Witness ==
    /\ handler = "app"
    /\ IsWindowEvent(<<"redraw">>)
    /\ cb.translated = << <<"redraw">> >>
    /\ Has(cb.ops, "clear")
    /\ IndexOf(cb.ops, "translate") < IndexOf(cb.ops, "clear")

\* the handles a VeilDERenderer::new call left live that were not live before it
LeftLive == rnew.after \ rnew.before

\* C23: when both stages compile and the link succeeds, VeilDERenderer::new returns Ok after
\* detaching and deleting both stage shaders, following the link, and the only handles it
\* leaves live are one program and one vertex array.
C23_SuccessLeavesProgramAndVertexArray ==
    (rnew.called /\ rnew.failAt = <<"none">>) =>
        /\ rnew.err = None
        /\ \A i \in 1..Len(Stages) :
              /\ Count(rnew.ops, <<"detach_shader", Stages[i]>>) = 1
              /\ Count(rnew.ops, <<"delete_shader", Stages[i]>>) = 1
              /\ IndexOf(rnew.ops, <<"link_program">>) < IndexOf(rnew.ops, <<"detach_shader", Stages[i]>>)
              /\ IndexOf(rnew.ops, <<"detach_shader", Stages[i]>>)
                    < IndexOf(rnew.ops, <<"delete_shader", Stages[i]>>)
        /\ {h.kind : h \in LeftLive} = {"program", "vertex_array"}
        /\ Cardinality(LeftLive) = 2
        /\ rnew.before \subseteq rnew.after

C23_Witness ==
    /\ rnew.called
    /\ rnew.failAt = <<"none">>
    /\ rnew.err = None
    /\ Has(rnew.ops, <<"delete_shader", "fragment">>)
    /\ application # None
    /\ {application[1].program, application[1].vertex_array} = LeftLive

\* a startup of app.rs has just stopped at the monitor, at the display builder (where the
\* graphics configuration is picked) or at the window
StartupRefused ==
    /\ IsStartup
    /\ cb.outcome # "ok"
    /\ cb.startup[Len(cb.startup)] \in {"monitor", "display_build", "window"}

\* C24: a startup that stops because there is no monitor, no graphics configuration or no
\* window ends with an error value that is sent on the fatal-error channel, exit being
\* asked; the callback never ends by panicking.
C24_StartupRefusalIsAnErrorValue ==
    StartupRefused =>
        /\ cb.outcome = "err"
        /\ cb.sent = 1
        /\ Len(errors) > cb.errorsBefore
        /\ errors[cb.errorsBefore + 1] = StartupError(cb.startup[Len(cb.startup)])
        /\ exitRequested
        /\ pc # "panicked"

\* C25: a window event delivered to app.rs while the application is not initialised makes
\* no call at all (no translation, no GL call, no shutdown, no redraw or exit request, no
\* error sent) and changes nothing of the program's state.
C25_UninitialisedEventIsNoOp ==
    [][(/\ callbacks' = callbacks + 1
        /\ cb'.kind = "window_event"
        /\ ~cb'.initialised)
       => (/\ cb'.ops = <<>>
           /\ cb'.translated = <<>>
           /\ cb'.sent = 0
           /\ UNCHANGED <<application, errors, exitRequested, gl, shutdowns, frames, lastFrame,
                          surface, viewport, swapInterval, window, created, rnew, received,
                          result, pc>>)]_vars

C25_Witness ==
    /\ handler = "app"
    /\ cb.kind = "window_event"
    /\ ~cb.initialised
    /\ cb.event = <<"redraw">>
    /\ cb.exitBefore
    /\ Len(errors) = 1
    /\ application = None

====
